---------------------------- MODULE Spec2Model ----------------------------
(***************************************************************************)
(* A model of tools/device_flags.py: the DeviceFlags session that resolves *)
(* a flag from the aconfig snapshot (the per-partition textproto files     *)
(* pulled from the device) and from the live device_config store.          *)
(*                                                                         *)
(* A Python str is modelled as the sequence of its code points, a bytes    *)
(* object as the sequence of its byte values.  A Python value is a record  *)
(* tagged with its type.  A call of get_value / get_bool is split into the *)
(* steps at which another thread can be scheduled (each blocking adb call, *)
(* each read or write of self._aconfig_flags).                             *)
(*                                                                         *)
(* The module also models scripts/local_mobly_runner.py: main() as a       *)
(* sequence of steps, one per subprocess, archive or temporary resource.   *)
(***************************************************************************)
EXTENDS Integers, Sequences, FiniteSets, TLC

VARIABLES
    device_files,    \* partition index -> the aconfig_flags.textproto on the device
    live_values,     \* what 'device_config get' can print on this device
    live_prev,       \* what it printed before the live store was last changed
    changes,         \* number of changes made to the device's documents
    dicts,           \* the dict objects created by _load_aconfig_flags, in creation order
    aconfig_flags,   \* self._aconfig_flags: 0 is None, i > 0 refers to dicts[i]
    pc,              \* thread -> position in get_value / get_bool
    args,            \* thread -> the call in progress (op, namespace, name)
    partition,       \* thread -> loop index of _load_aconfig_flags over _ACONFIG_PARTITIONS
    tmp_dir,         \* thread -> TRUE while the load's TemporaryDirectory exists
    parsed_flags,    \* thread -> records of the parsed document still to be inserted
    flags_ref,       \* thread -> the dict returned to get_value by _get_aconfig_flags
    aconfig_val,     \* thread -> get_value's local aconfig_val
    val,             \* thread -> get_bool's local val
    shell_out,       \* thread -> what adb.shell returned to the call in progress
    ret,             \* thread -> outcome of the call once it has ended
    shell_calls,     \* thread -> number of adb.shell invocations made by the call in progress
    pulls,           \* partition index -> number of adb.pull invocations in the session
    loads,           \* [started, completed, failed] counts of _load_aconfig_flags runs
    first_done,      \* TRUE once the first query of the session has ended
    main_pc,         \* runner: position in main()
    cli_args,        \* runner: the argparse Namespace returned by _parse_args
    mobly_bins,      \* runner: the resolved test binaries, in list order
    requirements_files, \* runner: number of resolved requirements.txt files
    test_apks,       \* runner: number of resolved test APKs
    serials,         \* runner: number of devices _install_apks installs to
    installs,        \* runner: number of 'adb install' calls that succeeded
    venv_ok,         \* runner: TRUE once 'python -m venv' has succeeded
    pip_installs,    \* runner: number of 'pip install -r' calls that succeeded
    _tempdirs,       \* runner: the module's list of temporary directories
    _tempfiles,      \* runner: the module's list of temporary files
    disk,            \* runner: the temporary resources that exist on the host
    ran,             \* runner: the subprocess.run calls of _run_mobly_tests, in order
    cleaned          \* runner: TRUE once _clean_up has run

vars == <<device_files, live_values, live_prev, changes, dicts, aconfig_flags, pc, args, partition, tmp_dir,
          parsed_flags, flags_ref, aconfig_val, val, shell_out, ret,
          shell_calls, pulls, loads, first_done,
          main_pc, cli_args, mobly_bins, requirements_files, test_apks, serials,
          installs, venv_ok, pip_installs, _tempdirs, _tempfiles, disk, ran, cleaned>>

---------------------------------------------------------------------------
(* Bounds of the model *)

\* the number of entries (flag records or unparseable text) placed in the
\* device's four partition documents, in total
MaxDefs == 2

\* the same, where several threads use the session
MaxDefsConc == 1

\* the same, where the device's documents and live store change under the
\* session
MaxDefsEnv == 1

\* the number of changes made to the device's documents under the session
MaxChanges == 1

\* runner: the number of test paths or packages on the command line, and of
\* test binaries among a module's artifacts
MaxBins == 2

\* runner: the number of requirements.txt files among the resolved resources
MaxReqs == 2

\* runner: the number of test APKs among the resolved resources
MaxApks == 2

\* runner: the number of device serials
MaxSerials == 2

---------------------------------------------------------------------------
(* Python values *)

None == [type |-> "NoneType"]
Str(s) == [type |-> "str", s |-> s]
Bool(b) == [type |-> "bool", b |-> b]
Bytes(b) == [type |-> "bytes", b |-> b]

\* exceptions; the ValueError of get_bool carries what its message names
Exc(t) == [type |-> t]
ValueError(namespace, name, v) ==
    [type |-> "ValueError", namespace |-> namespace, name |-> name, value |-> v]

Return(v) == [kind |-> "return", value |-> v]
Raise(e) == [kind |-> "raise", exc |-> e]

NoResult == [kind |-> "none"]

\* 'true', 'false', 'null' as code points
STR_true == <<116, 114, 117, 101>>
STR_false == <<102, 97, 108, 115, 101>>
STR_null == <<110, 117, 108, 108>>

\* str.isspace() for a code point below 256
IsSpace(ch) == ch \in (9..13) \cup (28..32) \cup {133, 160}

RECURSIVE LStrip(_)
LStrip(s) == IF s # <<>> /\ IsSpace(Head(s)) THEN LStrip(Tail(s)) ELSE s

RECURSIVE RStrip(_)
RStrip(s) ==
    IF s # <<>> /\ IsSpace(s[Len(s)]) THEN RStrip(SubSeq(s, 1, Len(s) - 1)) ELSE s

\* str.strip()
Strip(s) == RStrip(LStrip(s))

\* str.lower() for code points below 256
LowerChar(ch) ==
    IF ch \in 65..90 \/ (ch \in 192..222 /\ ch # 215) THEN ch + 32 ELSE ch

Lower(s) == [i \in 1..Len(s) |-> LowerChar(s[i])]

\* bytes.decode('utf8') succeeds: one- and two-byte sequences (the responses
\* of the model use no longer ones)
RECURSIVE Utf8Valid(_)
Utf8Valid(b) ==
    IF b = <<>> THEN TRUE
    ELSE IF b[1] < 128 THEN Utf8Valid(Tail(b))
    ELSE IF b[1] \in 194..223 /\ Len(b) >= 2 /\ b[2] \in 128..191
         THEN Utf8Valid(SubSeq(b, 3, Len(b)))
    ELSE FALSE

\* bytes.decode('utf8') of a valid byte sequence
RECURSIVE Utf8Decode(_)
Utf8Decode(b) ==
    IF b = <<>> THEN <<>>
    ELSE IF b[1] < 128 THEN <<b[1]>> \o Utf8Decode(Tail(b))
    ELSE <<(b[1] - 192) * 64 + (b[2] - 128)>> \o Utf8Decode(SubSeq(b, 3, Len(b)))

---------------------------------------------------------------------------
(* The device *)

_ACONFIG_PARTITIONS == <<"product", "system", "system_ext", "vendor">>

Partitions == 1..Len(_ACONFIG_PARTITIONS)

_READ_ONLY == "READ_ONLY"
_ENABLED == "ENABLED"

FlagStates == {"ENABLED", "DISABLED"}
FlagPermissions == {"READ_ONLY", "READ_WRITE"}

\* namespace 'n', package 'p', flag names 'f' and 'g'
Namespaces == {<<110>>}
Packages == {<<112>>}
FlagNames == {<<102>>, <<103>>}

\* the parsed_flag records the device's documents may hold: every state and
\* permission of flag n/p.f, and a read-only n/p.g
Records ==
    [namespace : Namespaces, package : Packages, name : {<<102>>},
     state : FlagStates, permission : FlagPermissions]
    \cup [namespace : Namespaces, package : Packages, name : {<<103>>},
          state : {"DISABLED"}, permission : {"READ_ONLY"}]

\* text that is not a parsed_flags textproto
Garbage == [garbage |-> TRUE]

\* the names get_value is called with: '{package}.{name}'
QueryNames == {p \o <<46>> \o f : p \in Packages, f \in FlagNames}

\* what 'device_config get' prints: b'true', b'TRUE', b'false', b'False',
\* b'foo', b'null', b'null\n', b' null', b'NULL', b'', b'\xc3\xa9' and the
\* invalid b'\xff'
Responses ==
    { <<116, 114, 117, 101>>, <<84, 82, 85, 69>>, <<102, 97, 108, 115, 101>>,
      <<70, 97, 108, 115, 101>>, <<102, 111, 111>>, <<110, 117, 108, 108>>,
      <<110, 117, 108, 108, 10>>, <<32, 110, 117, 108, 108>>,
      <<78, 85, 76, 76>>, <<>>, <<195, 169>>, <<255>> }

\* b'true' and b'null'
ResponsesConc == { <<116, 114, 117, 101>>, <<110, 117, 108, 108>> }

\* b'true', b'false' and b'null'
ResponsesEnv ==
    { <<116, 114, 117, 101>>, <<102, 97, 108, 115, 101>>, <<110, 117, 108, 108>> }

\* the placements of at most max entries into the partitions, in document order
Placements(max) ==
    UNION { { d \in [1..n -> Partitions \X (Records \cup {Garbage})] :
                \A i \in 1..(n - 1) : d[i][1] <= d[i + 1][1] } : n \in 0..max }

RECURSIVE EntriesOf(_, _)
EntriesOf(d, p) ==
    IF d = <<>> THEN <<>>
    ELSE IF Head(d)[1] = p THEN <<Head(d)[2]>> \o EntriesOf(Tail(d), p)
    ELSE EntriesOf(Tail(d), p)

DeviceOf(d) == [p \in Partitions |-> EntriesOf(d, p)]

---------------------------------------------------------------------------
(* The threads *)

MainThread == "t1"
Callers == {"t1", "t2"}

Ops == {"get_value", "get_bool"}

NoArgs == [op |-> "none", namespace |-> <<>>, name |-> <<>>]

\* the runner script's state
runnerVars == <<main_pc, cli_args, mobly_bins, requirements_files, test_apks, serials,
                installs, venv_ok, pip_installs, _tempdirs, _tempfiles, disk, ran,
                cleaned>>

NoNamespace == [parsed |-> FALSE]

\* the runner's process has been started: its module globals are empty lists
\* (lines 52-53) and main() has not executed a statement
RunnerInit ==
    /\ main_pc = "start"
    /\ cli_args = NoNamespace
    /\ mobly_bins = <<>>
    /\ requirements_files = 0
    /\ test_apks = 0
    /\ serials = 0
    /\ installs = 0
    /\ venv_ok = FALSE
    /\ pip_installs = 0
    /\ _tempdirs = <<>>
    /\ _tempfiles = <<>>
    /\ disk = {}
    /\ ran = <<>>
    /\ cleaned = FALSE

InitWith(max, responses) ==
    /\ device_files \in {DeviceOf(d) : d \in Placements(max)}
    /\ live_values = responses
    /\ live_prev = {}
    /\ changes = 0
    /\ dicts = <<>>
    /\ aconfig_flags = 0
    /\ pc = [c \in Callers |-> "idle"]
    /\ args = [c \in Callers |-> NoArgs]
    /\ partition = [c \in Callers |-> 0]
    /\ tmp_dir = [c \in Callers |-> FALSE]
    /\ parsed_flags = [c \in Callers |-> <<>>]
    /\ flags_ref = [c \in Callers |-> 0]
    /\ aconfig_val = [c \in Callers |-> None]
    /\ val = [c \in Callers |-> None]
    /\ shell_out = [c \in Callers |-> None]
    /\ ret = [c \in Callers |-> NoResult]
    /\ shell_calls = [c \in Callers |-> 0]
    /\ pulls = [p \in Partitions |-> 0]
    /\ loads = [started |-> 0, completed |-> 0, failed |-> 0]
    /\ first_done = FALSE
    /\ RunnerInit

Init == InitWith(MaxDefs, Responses)

InitConc == InitWith(MaxDefsConc, ResponsesConc)

\* the live store holds one value at a time
InitLive == \E b \in ResponsesEnv : InitWith(MaxDefsEnv, {b})

InitDevice == InitWith(MaxDefsEnv, ResponsesConc)

---------------------------------------------------------------------------
(* The pure parts of DeviceFlags *)

\* '%s/%s.%s' % (flag.namespace, flag.package, flag.name)
FullName(flag) == flag.namespace \o <<47>> \o flag.package \o <<46>> \o flag.name

\* '%s/%s' % (namespace, name)
QueryKey(namespace, name) == namespace \o <<47>> \o name

\* 'true' if aconfig_flag.state == _ENABLED else 'false'
AconfigVal(flag) == IF flag.state = _ENABLED THEN Str(STR_true) ELSE Str(STR_false)

\* text_format.Parse accepts the document
Parses(doc) == \A i \in 1..Len(doc) : doc[i] # Garbage

\* d[k] = v on a dict
DictSet(d, k, v) == [x \in DOMAIN d \cup {k} |-> IF x = k THEN v ELSE d[x]]

EmptyDict == [x \in {} |-> Garbage]

\* the response decoded but not stripped
DeviceConfigValNoStrip(b) == Utf8Decode(b)

\* adb.shell(...).decode('utf8').strip()
DeviceConfigVal(b) == Strip(Utf8Decode(b))

\* the live response returned whatever it is, with no fallback on 'null'
GetValueResultNoFallback(device_config_val, snapshot_val) == Str(device_config_val)

\* the snapshot value taking precedence, the live response used only
\* without one
GetValueResultSnapshotFirst(device_config_val, snapshot_val) ==
    IF snapshot_val # None THEN snapshot_val ELSE Str(device_config_val)

\* device_config_val if device_config_val != 'null' else aconfig_val
GetValueResult(device_config_val, snapshot_val) ==
    IF device_config_val # STR_null THEN Str(device_config_val) ELSE snapshot_val

\* get_bool comparing val itself, not val.lower()
GetBoolResultCaseSensitive(namespace, name, v) ==
    IF v = None THEN Raise(Exc("AttributeError"))
    ELSE IF v.s = STR_true THEN Return(Bool(TRUE))
    ELSE IF v.s = STR_false THEN Return(Bool(FALSE))
    ELSE Raise(ValueError(namespace, name, v.s))

\* the body of get_bool after get_value returned v
GetBoolResult(namespace, name, v) ==
    IF v = None THEN Raise(Exc("AttributeError"))
    ELSE IF Lower(v.s) = STR_true THEN Return(Bool(TRUE))
    ELSE IF Lower(v.s) = STR_false THEN Return(Bool(FALSE))
    ELSE Raise(ValueError(namespace, name, v.s))

---------------------------------------------------------------------------
(* The steps of a call *)

Set(f, c, v) == [f EXCEPT ![c] = v]

deviceVars == <<device_files, live_values, live_prev, changes, runnerVars>>
sessionVars == <<dicts, aconfig_flags>>
loadVars == <<partition, tmp_dir, parsed_flags, pulls, loads>>
valueVars == <<flags_ref, aconfig_val, val, shell_out, shell_calls>>

\* a thread calls get_value(namespace, name) or get_bool(namespace, name)
Call(c) ==
    /\ pc[c] = "idle"
    /\ \E op \in Ops, namespace \in Namespaces, name \in QueryNames :
         args' = Set(args, c, [op |-> op, namespace |-> namespace, name |-> name])
    /\ pc' = Set(pc, c, "get_flags")
    /\ UNCHANGED <<deviceVars, sessionVars, loadVars, valueVars, ret, first_done>>

\* _get_aconfig_flags testing 'if not self._aconfig_flags': an empty dict
\* is loaded again
GetAconfigFlagsFalsy(c) ==
    /\ pc[c] = "get_flags"
    /\ IF aconfig_flags = 0 \/ dicts[aconfig_flags] = EmptyDict
       THEN /\ pc' = Set(pc, c, "load")
            /\ UNCHANGED flags_ref
       ELSE /\ pc' = Set(pc, c, "lookup")
            /\ flags_ref' = Set(flags_ref, c, aconfig_flags)
    /\ UNCHANGED <<deviceVars, sessionVars, loadVars, args, aconfig_val, val,
                   shell_out, shell_calls, ret, first_done>>

\* _get_aconfig_flags with no memo: every query loads
GetAconfigFlagsAlways(c) ==
    /\ pc[c] = "get_flags"
    /\ pc' = Set(pc, c, "load")
    /\ UNCHANGED <<deviceVars, sessionVars, loadVars, args, valueVars, ret, first_done>>

\* _get_aconfig_flags: if self._aconfig_flags is None, load; else return it
GetAconfigFlags(c) ==
    /\ pc[c] = "get_flags"
    /\ IF aconfig_flags = 0
       THEN /\ pc' = Set(pc, c, "load")
            /\ UNCHANGED flags_ref
       ELSE /\ pc' = Set(pc, c, "lookup")
            /\ flags_ref' = Set(flags_ref, c, aconfig_flags)
    /\ UNCHANGED <<deviceVars, sessionVars, loadVars, args, aconfig_val, val,
                   shell_out, shell_calls, ret, first_done>>

\* _load_aconfig_flags: self._aconfig_flags = {}; enter the TemporaryDirectory
LoadStart(c) ==
    /\ pc[c] = "load"
    /\ dicts' = Append(dicts, EmptyDict)
    /\ aconfig_flags' = Len(dicts) + 1
    /\ tmp_dir' = Set(tmp_dir, c, TRUE)
    /\ partition' = Set(partition, c, 1)
    /\ loads' = [loads EXCEPT !.started = @ + 1]
    /\ pc' = Set(pc, c, "pull")
    /\ UNCHANGED <<deviceVars, parsed_flags, pulls, args, valueVars, ret, first_done>>

\* the exception leaving a load whose directory came from mkdtemp, with no
\* with block to remove it
LoadRaisesKeepsDir(c, e) ==
    /\ UNCHANGED tmp_dir
    /\ loads' = [loads EXCEPT !.failed = @ + 1]
    /\ pc' = Set(pc, c, "done")
    /\ ret' = Set(ret, c, Raise(e))

\* an exception leaves _load_aconfig_flags (the with block removes the
\* directory), _get_aconfig_flags, get_value and get_bool
LoadRaises(c, e) ==
    /\ tmp_dir' = Set(tmp_dir, c, FALSE)
    /\ loads' = [loads EXCEPT !.failed = @ + 1]
    /\ pc' = Set(pc, c, "done")
    /\ ret' = Set(ret, c, Raise(e))

\* adb.pull wrapped in a retry: a failed pull is tried again
PullRetries(c) ==
    /\ pc[c] = "pull"
    /\ pulls' = [pulls EXCEPT ![partition[c]] = @ + 1]
    /\ \/ /\ pc' = Set(pc, c, "parse")
          /\ parsed_flags' = Set(parsed_flags, c, device_files[partition[c]])
       \/ /\ pulls[partition[c]] = 0
          /\ UNCHANGED <<pc, parsed_flags>>
    /\ UNCHANGED <<deviceVars, sessionVars, partition, tmp_dir, loads, ret, args,
                   valueVars, first_done>>

\* self._ad.adb.pull([device_path, host_path]): the file is copied, or adb fails
Pull(c) ==
    /\ pc[c] = "pull"
    /\ pulls' = [pulls EXCEPT ![partition[c]] = @ + 1]
    /\ \/ /\ pc' = Set(pc, c, "parse")
          /\ parsed_flags' = Set(parsed_flags, c, device_files[partition[c]])
          /\ UNCHANGED <<tmp_dir, loads, ret>>
       \/ /\ LoadRaises(c, Exc("AdbError"))
          /\ UNCHANGED parsed_flags
    /\ UNCHANGED <<deviceVars, sessionVars, partition, args, valueVars, first_done>>

\* the for loop over _ACONFIG_PARTITIONS moves on; after the last partition
\* the with block ends and _get_aconfig_flags returns self._aconfig_flags
NextPartition(c) ==
    IF partition[c] < Len(_ACONFIG_PARTITIONS)
    THEN /\ partition' = Set(partition, c, partition[c] + 1)
         /\ pc' = Set(pc, c, "pull")
         /\ UNCHANGED <<tmp_dir, loads, flags_ref>>
    ELSE /\ partition' = Set(partition, c, 0)
         /\ tmp_dir' = Set(tmp_dir, c, FALSE)
         /\ loads' = [loads EXCEPT !.completed = @ + 1]
         /\ flags_ref' = Set(flags_ref, c, aconfig_flags)
         /\ pc' = Set(pc, c, "lookup")

\* text_format.Parse(f.read(), aconfig_pb2.parsed_flags())
Parse(c) ==
    /\ pc[c] = "parse"
    /\ IF ~Parses(parsed_flags[c])
       THEN /\ LoadRaises(c, Exc("ParseError"))
            /\ parsed_flags' = Set(parsed_flags, c, <<>>)
            /\ UNCHANGED <<partition, flags_ref>>
       ELSE IF parsed_flags[c] = <<>>
       THEN /\ NextPartition(c)
            /\ UNCHANGED <<parsed_flags, ret>>
       ELSE /\ pc' = Set(pc, c, "insert")
            /\ UNCHANGED <<parsed_flags, partition, tmp_dir, loads, flags_ref, ret>>
    /\ UNCHANGED <<deviceVars, sessionVars, pulls, args, aconfig_val, val,
                   shell_out, shell_calls, first_done>>

\* the insertion keeping the entry a key already has (setdefault)
InsertKeepFirst(c) ==
    /\ pc[c] = "insert"
    /\ LET flag == Head(parsed_flags[c])
       IN dicts' = [dicts EXCEPT ![aconfig_flags] =
                      IF FullName(flag) \in DOMAIN @ THEN @
                      ELSE DictSet(@, FullName(flag), flag)]
    /\ parsed_flags' = Set(parsed_flags, c, Tail(parsed_flags[c]))
    /\ IF Tail(parsed_flags[c]) = <<>>
       THEN NextPartition(c)
       ELSE UNCHANGED <<pc, partition, tmp_dir, loads, flags_ref>>
    /\ UNCHANGED <<deviceVars, aconfig_flags, pulls, args, aconfig_val, val,
                   shell_out, shell_calls, ret, first_done>>

\* self._aconfig_flags[full_name] = flag, for the next flag of the document
Insert(c) ==
    /\ pc[c] = "insert"
    /\ LET flag == Head(parsed_flags[c])
       IN dicts' = [dicts EXCEPT ![aconfig_flags] = DictSet(@, FullName(flag), flag)]
    /\ parsed_flags' = Set(parsed_flags, c, Tail(parsed_flags[c]))
    /\ IF Tail(parsed_flags[c]) = <<>>
       THEN NextPartition(c)
       ELSE UNCHANGED <<pc, partition, tmp_dir, loads, flags_ref>>
    /\ UNCHANGED <<deviceVars, aconfig_flags, pulls, args, aconfig_val, val,
                   shell_out, shell_calls, ret, first_done>>

\* get_value returns v: to the caller, or into get_bool's val
GetValueReturns(c, v) ==
    IF args[c].op = "get_value"
    THEN /\ pc' = Set(pc, c, "done")
         /\ ret' = Set(ret, c, Return(v))
         /\ UNCHANGED val
    ELSE /\ pc' = Set(pc, c, "coerce")
         /\ val' = Set(val, c, v)
         /\ UNCHANGED ret

\* get_value without the READ_ONLY return: every flag goes on to device_config
LookupIgnoresPermission(c) ==
    /\ pc[c] = "lookup"
    /\ LET d == dicts[flags_ref[c]]
           k == QueryKey(args[c].namespace, args[c].name)
       IN aconfig_val' = Set(aconfig_val, c, IF k \in DOMAIN d THEN AconfigVal(d[k]) ELSE None)
    /\ pc' = Set(pc, c, "shell")
    /\ UNCHANGED <<deviceVars, sessionVars, loadVars, args, flags_ref, val, ret,
                   shell_out, shell_calls, first_done>>

\* get_value returning the snapshot value of every flag it finds, whatever
\* its permission
LookupAnyPermission(c) ==
    /\ pc[c] = "lookup"
    /\ LET d == dicts[flags_ref[c]]
           k == QueryKey(args[c].namespace, args[c].name)
       IN IF k \in DOMAIN d
          THEN /\ aconfig_val' = Set(aconfig_val, c, AconfigVal(d[k]))
               /\ GetValueReturns(c, AconfigVal(d[k]))
          ELSE /\ pc' = Set(pc, c, "shell")
               /\ UNCHANGED <<aconfig_val, val, ret>>
    /\ UNCHANGED <<deviceVars, sessionVars, loadVars, args, flags_ref, shell_out,
                   shell_calls, first_done>>

\* aconfig_flag = <dict>.get('%s/%s' % (namespace, name)) and the READ_ONLY return
Lookup(c) ==
    /\ pc[c] = "lookup"
    /\ LET d == dicts[flags_ref[c]]
           k == QueryKey(args[c].namespace, args[c].name)
       IN IF k \in DOMAIN d
          THEN /\ aconfig_val' = Set(aconfig_val, c, AconfigVal(d[k]))
               /\ IF d[k].permission = _READ_ONLY
                  THEN GetValueReturns(c, AconfigVal(d[k]))
                  ELSE /\ pc' = Set(pc, c, "shell")
                       /\ UNCHANGED <<val, ret>>
          ELSE /\ pc' = Set(pc, c, "shell")
               /\ UNCHANGED <<aconfig_val, val, ret>>
    /\ UNCHANGED <<deviceVars, sessionVars, loadVars, args, flags_ref, shell_out,
                   shell_calls, first_done>>

\* self._ad.adb.shell('device_config get ...').decode('utf8').strip() and the
\* return of get_value
Shell(c) ==
    /\ pc[c] = "shell"
    /\ shell_calls' = Set(shell_calls, c, shell_calls[c] + 1)
    /\ \/ /\ pc' = Set(pc, c, "done")
          /\ ret' = Set(ret, c, Raise(Exc("AdbError")))
          /\ UNCHANGED <<val, shell_out>>
       \/ \E b \in live_values :
            /\ shell_out' = Set(shell_out, c, Bytes(b))
            /\ IF ~Utf8Valid(b)
               THEN /\ pc' = Set(pc, c, "done")
                    /\ ret' = Set(ret, c, Raise(Exc("UnicodeDecodeError")))
                    /\ UNCHANGED val
               ELSE GetValueReturns(c, GetValueResult(DeviceConfigVal(b), aconfig_val[c]))
    /\ UNCHANGED <<deviceVars, sessionVars, loadVars, args, flags_ref, aconfig_val,
                   first_done>>

\* get_bool: val.lower() == 'true', val.lower() == 'false', or the ValueError
Coerce(c) ==
    /\ pc[c] = "coerce"
    /\ pc' = Set(pc, c, "done")
    /\ ret' = Set(ret, c, GetBoolResult(args[c].namespace, args[c].name, val[c]))
    /\ UNCHANGED <<deviceVars, sessionVars, loadVars, args, valueVars, first_done>>

\* the caller has its result (or its exception); the frame is gone
Finish(c) ==
    /\ pc[c] = "done"
    /\ pc' = Set(pc, c, "idle")
    /\ args' = Set(args, c, NoArgs)
    /\ partition' = Set(partition, c, 0)
    /\ parsed_flags' = Set(parsed_flags, c, <<>>)
    /\ flags_ref' = Set(flags_ref, c, 0)
    /\ aconfig_val' = Set(aconfig_val, c, None)
    /\ val' = Set(val, c, None)
    /\ shell_out' = Set(shell_out, c, None)
    /\ shell_calls' = Set(shell_calls, c, 0)
    /\ ret' = Set(ret, c, NoResult)
    /\ first_done' = TRUE
    /\ UNCHANGED <<deviceVars, sessionVars, tmp_dir, pulls, loads>>

Step(c) ==
    \/ Call(c)
    \/ GetAconfigFlags(c)
    \/ LoadStart(c)
    \/ Pull(c)
    \/ Parse(c)
    \/ Insert(c)
    \/ Lookup(c)
    \/ Shell(c)
    \/ Coerce(c)
    \/ Finish(c)

\* one thread uses the session: the calls follow one another
Next == Step(MainThread)

Spec == Init /\ [][Next]_vars

\* the live store of the device is given another value ('device_config put')
DeviceConfigPut ==
    /\ \E b \in ResponsesEnv :
         /\ b \notin live_values
         /\ live_values' = {b}
    /\ live_prev' = live_values
    /\ UNCHANGED <<device_files, changes, sessionVars, loadVars, valueVars, pc, args,
                   ret, first_done, runnerVars>>

\* s without its i-th element
Without(s, i) == SubSeq(s, 1, i - 1) \o SubSeq(s, i + 1, Len(s))

\* an entry of a partition's aconfig_flags.textproto is rewritten: the same
\* flag with another state or permission
DeviceRewrite ==
    /\ changes < MaxChanges
    /\ changes' = changes + 1
    /\ \E p \in Partitions : \E i \in 1..Len(device_files[p]) : \E r \in Records :
         /\ device_files[p][i] \in Records
         /\ r # device_files[p][i]
         /\ FullName(r) = FullName(device_files[p][i])
         /\ device_files' = [device_files EXCEPT ![p][i] = r]
    /\ UNCHANGED <<live_values, live_prev, sessionVars, loadVars, valueVars, pc,
                   args, ret, first_done, runnerVars>>

\* an entry of a partition's aconfig_flags.textproto is removed
DeviceRemove ==
    /\ changes < MaxChanges
    /\ changes' = changes + 1
    /\ \E p \in Partitions : \E i \in 1..Len(device_files[p]) :
         device_files' = [device_files EXCEPT ![p] = Without(@, i)]
    /\ UNCHANGED <<live_values, live_prev, sessionVars, loadVars, valueVars, pc,
                   args, ret, first_done, runnerVars>>

\* one thread uses the session while the live store changes
NextLive ==
    \/ Step(MainThread)
    \/ DeviceConfigPut

SpecLive == InitLive /\ [][NextLive]_vars

\* one thread uses the session while the device's documents change
NextDevice ==
    \/ Step(MainThread)
    \/ DeviceRewrite
    \/ DeviceRemove

SpecDevice == InitDevice /\ [][NextDevice]_vars

\* several threads use the session: their calls interleave
NextConc == \E c \in Callers : Step(c)

SpecConc == InitConc /\ [][NextConc]_vars

---------------------------------------------------------------------------
(* The runner script: scripts/local_mobly_runner.py *)

flagsVars == <<device_files, live_values, live_prev, changes, sessionVars, loadVars,
               valueVars, pc, args, ret, first_done>>

BinNames == {"test_a", "test_b"}

\* the return codes of a child process
ExitStatuses == {0, 1}

SeqsUpTo(S, n) == UNION {[1..k -> S] : k \in 0..n}

Range(s) == {s[i] : i \in 1..Len(s)}

\* the options of a command line: exactly one of --module, --packages and
\* --test_paths (mode) with its comma-delimited value (items; a module is
\* one name), --serials as the number of serials listed (0: not given)
CommandLines ==
    {a \in [parsed : {TRUE}, mode : {"module", "packages", "test_paths"},
            items : SeqsUpTo(BinNames, MaxBins), build : BOOLEAN,
            install_apks : BOOLEAN, serials : 0..MaxSerials, config : BOOLEAN,
            novenv : BOOLEAN] :
        a.mode = "module" => Len(a.items) <= 1}

\* args.<option> is truthy: the option was given a non-empty value
Given(a, option) == a.mode = option /\ a.items # <<>>

\* _parse_args: parser.error ends the process, otherwise the Namespace is
\* returned with novenv implied by --test_paths
ParseArgs ==
    /\ main_pc = "start"
    /\ \E a \in CommandLines :
         IF \/ a.build /\ ~Given(a, "module")
            \/ a.install_apks /\ ~(Given(a, "module") \/ Given(a, "packages"))
         THEN /\ main_pc' = "exited"
              /\ cli_args' = cli_args
         ELSE /\ main_pc' = "platform"
              /\ cli_args' = [a EXCEPT !.novenv = a.novenv \/ a.mode = "test_paths"]
    /\ UNCHANGED <<flagsVars, mobly_bins, requirements_files, test_apks, serials,
                   installs, venv_ok, pip_installs, _tempdirs, _tempfiles, disk, ran,
                   cleaned>>

\* main: --module is refused on Windows
CheckPlatform ==
    /\ main_pc = "platform"
    /\ \E windows \in BOOLEAN :
         main_pc' = IF Given(cli_args, "module") /\ windows THEN "exited"
                    ELSE IF cli_args.build THEN "build"
                    ELSE "resolve"
    /\ UNCHANGED <<flagsVars, cli_args, mobly_bins, requirements_files, test_apks,
                   serials, installs, venv_ok, pip_installs, _tempdirs, _tempfiles,
                   disk, ran, cleaned>>

\* _build_module: a failed build is caught and ends the process by exit(1)
BuildModule ==
    /\ main_pc = "build"
    /\ \E ok \in BOOLEAN : main_pc' = IF ok THEN "resolve" ELSE "exited"
    /\ UNCHANGED <<flagsVars, cli_args, mobly_bins, requirements_files, test_apks,
                   serials, installs, venv_ok, pip_installs, _tempdirs, _tempfiles,
                   disk, ran, cleaned>>

\* where main continues after _resolve_test_resources
AfterResolve == IF cli_args.install_apks THEN "install" ELSE "venv"

\* _resolve_test_resources, --test_paths: the paths are the binaries
ResolveTestPaths ==
    /\ main_pc = "resolve"
    /\ Given(cli_args, "test_paths")
    /\ mobly_bins' = cli_args.items
    /\ main_pc' = AfterResolve
    /\ UNCHANGED <<flagsVars, cli_args, requirements_files, test_apks, serials,
                   installs, venv_ok, pip_installs, _tempdirs, _tempfiles, disk, ran,
                   cleaned>>

\* _resolve_test_resources, --module: the artifacts listed by outmod are
\* sorted into binaries, requirements files and APKs; _get_module_artifacts
\* ends the process by exit(1) when outmod fails or a file is missing
ResolveModule ==
    /\ main_pc = "resolve"
    /\ Given(cli_args, "module")
    /\ \/ /\ main_pc' = "exited"
          /\ UNCHANGED <<mobly_bins, requirements_files, test_apks>>
       \/ /\ \E bins \in SeqsUpTo(BinNames, MaxBins) : mobly_bins' = bins
          /\ \E r \in 0..MaxReqs : requirements_files' = r
          /\ \E a \in 0..MaxApks : test_apks' = a
          /\ main_pc' = AfterResolve
    /\ UNCHANGED <<flagsVars, cli_args, serials, installs, venv_ok, pip_installs,
                   _tempdirs, _tempfiles, disk, ran, cleaned>>

\* _resolve_test_resources, --packages: the unzip root is created and
\* recorded in _tempdirs
ResolvePackages ==
    /\ main_pc = "resolve"
    /\ Given(cli_args, "packages")
    /\ disk' = disk \cup {"mobly_unzip"}
    /\ _tempdirs' = Append(_tempdirs, "mobly_unzip")
    /\ main_pc' = "unzip"
    /\ UNCHANGED <<flagsVars, cli_args, mobly_bins, requirements_files, test_apks,
                   serials, installs, venv_ok, pip_installs, _tempfiles, ran, cleaned>>

\* _resolve_test_resources with none of the three options truthy
ResolveNone ==
    /\ main_pc = "resolve"
    /\ cli_args.items = <<>>
    /\ main_pc' = "exited"
    /\ UNCHANGED <<flagsVars, cli_args, mobly_bins, requirements_files, test_apks,
                   serials, installs, venv_ok, pip_installs, _tempdirs, _tempfiles,
                   disk, ran, cleaned>>

\* one round of the loop over the packages: the package is a binary, its
\* archive is extracted (os.makedirs or ZipFile can raise) and the extracted
\* requirements.txt and .apk files are collected
Unzip ==
    /\ main_pc = "unzip"
    /\ mobly_bins' = Append(mobly_bins, cli_args.items[Len(mobly_bins) + 1])
    /\ \/ /\ main_pc' = "raised"
          /\ UNCHANGED <<requirements_files, test_apks>>
       \/ /\ \E r \in 0..1 : /\ requirements_files + r <= MaxReqs
                             /\ requirements_files' = requirements_files + r
          /\ \E a \in 0..1 : /\ test_apks + a <= MaxApks
                             /\ test_apks' = test_apks + a
          /\ main_pc' = IF Len(mobly_bins) + 1 = Len(cli_args.items)
                        THEN AfterResolve ELSE "unzip"
    /\ UNCHANGED <<flagsVars, cli_args, serials, installs, venv_ok, pip_installs,
                   _tempdirs, _tempfiles, disk, ran, cleaned>>

\* _install_apks up to its loop: without --serials the attached devices are
\* listed by check_output, which can raise
InstallApks ==
    /\ main_pc = "install"
    /\ \/ /\ cli_args.serials = 0
          /\ \/ /\ main_pc' = "raised"
                /\ UNCHANGED serials
             \/ \E n \in 0..MaxSerials :
                  /\ serials' = n
                  /\ main_pc' = IF test_apks * n = 0 THEN "venv" ELSE "adb_install"
       \/ /\ cli_args.serials > 0
          /\ serials' = cli_args.serials
          /\ main_pc' = IF test_apks = 0 THEN "venv" ELSE "adb_install"
    /\ UNCHANGED <<flagsVars, cli_args, mobly_bins, requirements_files, test_apks,
                   installs, venv_ok, pip_installs, _tempdirs, _tempfiles, disk, ran,
                   cleaned>>

\* one round of the loops of _install_apks: check_call of 'adb install'
\* raises when the command fails
AdbInstall ==
    /\ main_pc = "adb_install"
    /\ \/ /\ main_pc' = "raised"
          /\ UNCHANGED installs
       \/ /\ installs' = installs + 1
          /\ main_pc' = IF installs + 1 = test_apks * serials
                        THEN "venv" ELSE "adb_install"
    /\ UNCHANGED <<flagsVars, cli_args, mobly_bins, requirements_files, test_apks,
                   serials, venv_ok, pip_installs, _tempdirs, _tempfiles, disk, ran,
                   cleaned>>

\* main with args.novenv: no virtualenv is set up
NoVenv ==
    /\ main_pc = "venv"
    /\ cli_args.novenv
    /\ main_pc' = "config"
    /\ UNCHANGED <<flagsVars, cli_args, mobly_bins, requirements_files, test_apks,
                   serials, installs, venv_ok, pip_installs, _tempdirs, _tempfiles,
                   disk, ran, cleaned>>

\* _setup_virtualenv, line 240: the directory of the virtualenv is created
MakeVenvDir ==
    /\ main_pc = "venv"
    /\ ~cli_args.novenv
    /\ disk' = disk \cup {"venv"}
    /\ main_pc' = "venv_create"
    /\ UNCHANGED <<flagsVars, cli_args, mobly_bins, requirements_files, test_apks,
                   serials, installs, venv_ok, pip_installs, _tempdirs, _tempfiles,
                   ran, cleaned>>

\* _setup_virtualenv, lines 242-243: check_call of 'python -m venv' raises
\* when the command fails; the directory is recorded in _tempdirs after it
CreateVenv ==
    /\ main_pc = "venv_create"
    /\ \/ /\ main_pc' = "raised"
          /\ UNCHANGED <<venv_ok, _tempdirs>>
       \/ /\ venv_ok' = TRUE
          /\ _tempdirs' = Append(_tempdirs, "venv")
          /\ main_pc' = IF requirements_files = 0 THEN "config" ELSE "pip"
    /\ UNCHANGED <<flagsVars, cli_args, mobly_bins, requirements_files, test_apks,
                   serials, installs, pip_installs, _tempfiles, disk, ran, cleaned>>

\* one round of the loop of _setup_virtualenv: check_call of 'pip install'
PipInstall ==
    /\ main_pc = "pip"
    /\ \/ /\ main_pc' = "raised"
          /\ UNCHANGED pip_installs
       \/ /\ pip_installs' = pip_installs + 1
          /\ main_pc' = IF pip_installs + 1 = requirements_files
                        THEN "config" ELSE "pip"
    /\ UNCHANGED <<flagsVars, cli_args, mobly_bins, requirements_files, test_apks,
                   serials, installs, venv_ok, _tempdirs, _tempfiles, disk, ran,
                   cleaned>>

\* where main continues once it has a config
AfterConfig == IF mobly_bins = <<>> THEN "clean_up" ELSE "run"

\* main with --config: the given config is used
UseConfig ==
    /\ main_pc = "config"
    /\ cli_args.config
    /\ main_pc' = AfterConfig
    /\ UNCHANGED <<flagsVars, cli_args, mobly_bins, requirements_files, test_apks,
                   serials, installs, venv_ok, pip_installs, _tempdirs, _tempfiles,
                   disk, ran, cleaned>>

\* _generate_mobly_config: the config file is created, written and recorded
\* in _tempfiles
GenerateMoblyConfig ==
    /\ main_pc = "config"
    /\ ~cli_args.config
    /\ disk' = disk \cup {"mobly_config"}
    /\ _tempfiles' = Append(_tempfiles, "mobly_config")
    /\ main_pc' = AfterConfig
    /\ UNCHANGED <<flagsVars, cli_args, mobly_bins, requirements_files, test_apks,
                   serials, installs, venv_ok, pip_installs, _tempdirs, ran, cleaned>>

\* a run loop that ends at the first binary whose exit status is not 0
RunMoblyTestsStopOnFailure ==
    /\ main_pc = "run"
    /\ \E status \in ExitStatuses :
         /\ ran' = Append(ran, [bin |-> mobly_bins[Len(ran) + 1], status |-> status])
         /\ main_pc' = IF Len(ran) + 1 = Len(mobly_bins) \/ status # 0
                       THEN "clean_up" ELSE "run"
    /\ UNCHANGED <<flagsVars, cli_args, mobly_bins, requirements_files, test_apks,
                   serials, installs, venv_ok, pip_installs, _tempdirs, _tempfiles,
                   disk, cleaned>>

\* one round of the loop of _run_mobly_tests: subprocess.run starts the next
\* binary and waits for it; its exit status is not looked at
RunMoblyTests ==
    /\ main_pc = "run"
    /\ \E status \in ExitStatuses :
         ran' = Append(ran, [bin |-> mobly_bins[Len(ran) + 1], status |-> status])
    /\ main_pc' = IF Len(ran) + 1 = Len(mobly_bins) THEN "clean_up" ELSE "run"
    /\ UNCHANGED <<flagsVars, cli_args, mobly_bins, requirements_files, test_apks,
                   serials, installs, venv_ok, pip_installs, _tempdirs, _tempfiles,
                   disk, cleaned>>

\* _clean_up: the recorded directories and files are removed and the lists
\* cleared; main returns
CleanUp ==
    /\ main_pc = "clean_up"
    /\ disk' = disk \ (Range(_tempdirs) \cup Range(_tempfiles))
    /\ _tempdirs' = <<>>
    /\ _tempfiles' = <<>>
    /\ cleaned' = TRUE
    /\ main_pc' = "returned"
    /\ UNCHANGED <<flagsVars, cli_args, mobly_bins, requirements_files, test_apks,
                   serials, installs, venv_ok, pip_installs, ran>>

\* the runner's process: no DeviceFlags session is in use
InitRunner == InitWith(0, {})

NextRunner ==
    \/ ParseArgs
    \/ CheckPlatform
    \/ BuildModule
    \/ ResolveTestPaths
    \/ ResolveModule
    \/ ResolvePackages
    \/ ResolveNone
    \/ Unzip
    \/ InstallApks
    \/ AdbInstall
    \/ NoVenv
    \/ MakeVenvDir
    \/ CreateVenv
    \/ PipInstall
    \/ UseConfig
    \/ GenerateMoblyConfig
    \/ RunMoblyTests
    \/ CleanUp

SpecRunner == InitRunner /\ [][NextRunner]_vars

---------------------------------------------------------------------------
(* What the claims speak of *)

\* get_value has returned or raised in thread c's call
Resolved(c) == (pc[c] = "done" /\ args[c].op = "get_value") \/ pc[c] = "coerce"

\* what get_value returned or raised there
Outcome(c) == IF pc[c] = "coerce" THEN Return(val[c]) ELSE ret[c]

\* the snapshot index thread c's call looked the flag up in
IndexOf(c) == dicts[flags_ref[c]]

KeyOf(c) == QueryKey(args[c].namespace, args[c].name)

\* the call found a snapshot entry with this permission
HasEntry(c, permission) ==
    /\ flags_ref[c] # 0
    /\ KeyOf(c) \in DOMAIN IndexOf(c)
    /\ IndexOf(c)[KeyOf(c)].permission = permission

NoEntry(c) == flags_ref[c] # 0 /\ KeyOf(c) \notin DOMAIN IndexOf(c)

SnapshotValue(c) ==
    IF IndexOf(c)[KeyOf(c)].state = "ENABLED" THEN STR_true ELSE STR_false

\* adb.shell answered the call with text
HasLive(c) == shell_out[c] # None /\ Utf8Valid(shell_out[c].b)

\* the live value: the response, decoded and trimmed
Live(c) == Strip(Utf8Decode(shell_out[c].b))

\* s equals the lower-case ASCII literal lit, ignoring case
EqualsIgnoringCase(s, lit) ==
    /\ Len(s) = Len(lit)
    /\ \A i \in 1..Len(lit) : s[i] = lit[i] \/ s[i] = lit[i] - 32

LoadPcs == {"load", "pull", "parse", "insert"}

---------------------------------------------------------------------------
(* The claims *)

\* C1: for a flag whose snapshot entry is READ_ONLY, get_value returns 'true'
\* when the entry is ENABLED and 'false' otherwise, and the call issues no
\* device_config shell query.
C1_ReadOnlyFromSnapshot ==
    \A c \in Callers :
        (Resolved(c) /\ HasEntry(c, "READ_ONLY")) =>
            /\ Outcome(c) = Return(Str(SnapshotValue(c)))
            /\ shell_calls[c] = 0

C1_Witness ==
    \E c \in Callers :
        /\ Resolved(c) /\ HasEntry(c, "READ_ONLY")
        /\ IndexOf(c)[KeyOf(c)].state = "ENABLED"
        /\ Outcome(c) = Return(Str(STR_true))
        /\ first_done

\* C2: for a flag whose snapshot entry is READ_WRITE, get_value returns the
\* live value when it is not 'null' and the snapshot-derived 'true' / 'false'
\* when it is 'null'.
C2_ReadWriteLiveThenSnapshot ==
    \A c \in Callers :
        (Resolved(c) /\ HasEntry(c, "READ_WRITE") /\ HasLive(c)) =>
            Outcome(c) = Return(Str(IF Live(c) # STR_null THEN Live(c)
                                    ELSE SnapshotValue(c)))

C2_Witness ==
    \E c \in Callers :
        /\ Resolved(c) /\ HasEntry(c, "READ_WRITE") /\ HasLive(c)
        /\ Live(c) = STR_null
        /\ Outcome(c) = Return(Str(STR_false))

\* C3: for a flag with no snapshot entry, get_value returns exactly the
\* trimmed live value, and None when that is the 'null' sentinel.
C3_MissingUsesLive ==
    \A c \in Callers :
        (Resolved(c) /\ NoEntry(c) /\ HasLive(c)) =>
            Outcome(c) = Return(IF Live(c) = STR_null THEN None ELSE Str(Live(c)))

C3_Witness ==
    \E c \in Callers :
        /\ Resolved(c) /\ NoEntry(c) /\ HasLive(c)
        /\ shell_out[c].b = <<110, 117, 108, 108, 10>>
        /\ Outcome(c) = Return(None)

\* C4: over a sequence of get_value and get_bool calls on one session the
\* snapshot load runs at most once: each partition file is pulled at most
\* once, and only during the first query; no later query loads or pulls.
C4_LoadAtMostOnce ==
    /\ loads.started <= 1
    /\ \A p \in Partitions : pulls[p] <= 1
    /\ first_done => \A c \in Callers : pc[c] \notin LoadPcs

C4_Witness ==
    /\ first_done
    /\ pc[MainThread] = "lookup"
    /\ loads.completed = 1
    /\ \A p \in Partitions : pulls[p] = 1

\* C5: a pull or parse failure during the snapshot load propagates to the
\* caller and leaves the session with no index: self._aconfig_flags never
\* refers to an index built from only some of the partitions, and no query
\* looks a flag up in one.
C5_FailedLoadLeavesNoIndex ==
    /\ \A c \in Callers :
          (pc[c] = "done" /\ flags_ref[c] = 0) => ret[c].kind = "raise"
    /\ loads.failed > 0 => aconfig_flags = 0
    /\ loads.completed = 0 => \A c \in Callers : pc[c] # "lookup"

\* C6: for a flag absent from both sources get_value returns None without
\* error, and get_bool fails with the ValueError naming namespace and name.
C6_AbsentFlag ==
    \A c \in Callers :
        (pc[c] = "done" /\ NoEntry(c) /\ HasLive(c) /\ Live(c) = STR_null) =>
            IF args[c].op = "get_value"
            THEN ret[c] = Return(None)
            ELSE /\ ret[c].kind = "raise"
                 /\ ret[c].exc.type = "ValueError"
                 /\ ret[c].exc.namespace = args[c].namespace
                 /\ ret[c].exc.name = args[c].name

\* C7: for a string that get_value resolved, get_bool returns True exactly
\* when it equals 'true' ignoring case, False exactly when it equals 'false'
\* ignoring case, and raises the ValueError carrying namespace, name and the
\* value for every other string.
C7_StrictBoolean ==
    \A c \in Callers :
        (pc[c] = "done" /\ args[c].op = "get_bool" /\ val[c] # None) =>
            ret[c] = IF EqualsIgnoringCase(val[c].s, STR_true) THEN Return(Bool(TRUE))
                     ELSE IF EqualsIgnoringCase(val[c].s, STR_false)
                          THEN Return(Bool(FALSE))
                     ELSE Raise(ValueError(args[c].namespace, args[c].name, val[c].s))

C7_Witness ==
    \E c \in Callers :
        /\ pc[c] = "done" /\ args[c].op = "get_bool"
        /\ val[c] = Str(<<84, 82, 85, 69>>)
        /\ ret[c] = Return(Bool(TRUE))

\* the record of partition p at position i is the last one on the device
\* with its composite key
IsLatest(p, i) ==
    LET k == FullName(device_files[p][i])
    IN /\ \A j \in (i + 1)..Len(device_files[p]) : FullName(device_files[p][j]) # k
       /\ \A q \in (p + 1)..Len(_ACONFIG_PARTITIONS) :
             \A j \in 1..Len(device_files[q]) : FullName(device_files[q][j]) # k

\* C8: after a completed load the index entry of every composite key is the
\* record of the latest partition, in the order product, system, system_ext,
\* vendor, that defines the key.
C8_LastPartitionWins ==
    loads.completed = 1 =>
        \A p \in Partitions : \A i \in 1..Len(device_files[p]) :
            IsLatest(p, i) =>
                /\ FullName(device_files[p][i]) \in DOMAIN dicts[aconfig_flags]
                /\ dicts[aconfig_flags][FullName(device_files[p][i])] = device_files[p][i]

C8_Witness ==
    /\ loads.completed = 1
    /\ Len(device_files[1]) = 1 /\ Len(device_files[4]) = 1
    /\ FullName(device_files[1][1]) = FullName(device_files[4][1])
    /\ device_files[1][1].state # device_files[4][1].state
    /\ dicts[aconfig_flags][FullName(device_files[1][1])] = device_files[4][1]

\* C9: with several threads querying a session whose snapshot is not loaded,
\* at most one load runs: each partition file is pulled at most once.
C9_SingleLoadUnderConcurrency ==
    /\ loads.started <= 1
    /\ \A p \in Partitions : pulls[p] <= 1

\* C10: no thread performs its index lookup while another thread's load is
\* still filling the index.
C10_NoLookupDuringLoad ==
    [][\A c \in Callers :
          Lookup(c) => \A d \in Callers \ {c} : pc[d] \notin {"pull", "parse", "insert"}]_vars

\* C11: the scratch directory of a snapshot load is released by the time the
\* load returns or raises, whatever the outcome: it exists only while the
\* load is pulling, parsing or inserting.
C11_ScratchReleased ==
    \A c \in Callers : tmp_dir[c] => pc[c] \in {"pull", "parse", "insert"}

C11_Witness ==
    \E c \in Callers :
        /\ pc[c] = "done" /\ ret[c] = Raise(Exc("ParseError"))
        /\ partition[c] = 3
        /\ ~tmp_dir[c]

\* C13: a failing pull or shell command is invoked once and not retried; the
\* query ends in the error at once; the pull failure aborts the load (no later
\* partition is pulled) and a failed live query leaves the index unchanged.
C13_FailureNotRetried ==
    /\ [](\A c \in Callers :
            (pc[c] = "done" /\ ret[c] = Raise(Exc("AdbError"))) =>
                IF flags_ref[c] = 0
                THEN /\ pulls[partition[c]] = 1
                     /\ \A q \in Partitions : q > partition[c] => pulls[q] = 0
                ELSE shell_calls[c] = 1)
    /\ [][\A c \in Callers :
            /\ (pc[c] = "pull" /\ pc'[c] # "parse") =>
                  (pc'[c] = "done" /\ ret'[c] = Raise(Exc("AdbError")))
            /\ (pc[c] = "shell" /\ pc'[c] # "shell" /\ shell_out'[c] = None) =>
                  /\ pc'[c] = "done" /\ ret'[c] = Raise(Exc("AdbError"))
                  /\ dicts' = dicts /\ aconfig_flags' = aconfig_flags]_vars

C13_Witness ==
    \E c \in Callers :
        /\ pc[c] = "done" /\ ret[c] = Raise(Exc("AdbError"))
        /\ flags_ref[c] # 0 /\ shell_calls[c] = 1
        /\ loads.completed = 1
        /\ DOMAIN dicts[aconfig_flags] # {}

\* C15: get_value never returns the sentinel: what it returns is a string
\* other than 'null' or None, and None only when the flag has no snapshot
\* entry and the trimmed live response is 'null'.
C15_SentinelNeverReturned ==
    \A c \in Callers :
        (Resolved(c) /\ Outcome(c).kind = "return") =>
            /\ Outcome(c).value # Str(STR_null)
            /\ Outcome(c).value.type \in {"str", "NoneType"}
            /\ Outcome(c).value = None =>
                  (NoEntry(c) /\ HasLive(c) /\ Live(c) = STR_null)

C15_Witness ==
    \E c \in Callers :
        /\ Resolved(c) /\ HasEntry(c, "READ_WRITE")
        /\ shell_out[c] = Bytes(<<32, 110, 117, 108, 108>>)
        /\ Outcome(c) = Return(Str(STR_true))

\* C12: the live override is never cached: a get_value call for a flag that
\* is not READ_ONLY in the snapshot issues exactly one device_config query,
\* the query returns what the live store holds at that moment, and the call
\* resolves from that response.
C12_LiveNeverCached ==
    /\ [](\A c \in Callers :
            (Resolved(c) /\ flags_ref[c] # 0 /\ ~HasEntry(c, "READ_ONLY")) =>
                /\ shell_calls[c] = 1
                /\ HasLive(c) =>
                     Outcome(c) = Return(IF Live(c) # STR_null THEN Str(Live(c))
                                         ELSE IF NoEntry(c) THEN None
                                         ELSE Str(SnapshotValue(c))))
    /\ [][\A c \in Callers :
            (pc[c] = "shell" /\ pc'[c] # "shell" /\ shell_out'[c] # None) =>
                shell_out'[c].b \in live_values]_vars

C12_Witness ==
    \E c \in Callers :
        /\ first_done /\ live_prev # {}
        /\ Resolved(c) /\ HasEntry(c, "READ_WRITE") /\ shell_calls[c] = 1
        /\ HasLive(c)
        /\ shell_out[c].b \in live_values /\ shell_out[c].b \notin live_prev
        /\ Live(c) # STR_null
        /\ Outcome(c) = Return(Str(Live(c)))
        /\ Live(c) # SnapshotValue(c)

\* C14: once the snapshot has been loaded the index stays as it is: no step
\* of a get_value or get_bool call and no change of the device's partition
\* documents adds, removes or alters an entry or replaces the index.
C14_IndexImmutable ==
    [][loads.completed = 1 => (dicts' = dicts /\ aconfig_flags' = aconfig_flags)]_vars

C14_Witness ==
    \E c \in Callers :
        /\ first_done /\ loads.completed = 1
        /\ Resolved(c) /\ HasEntry(c, "READ_ONLY")
        /\ \A p \in Partitions : device_files[p] = <<>>
        /\ Outcome(c) = Return(Str(SnapshotValue(c)))

---------------------------------------------------------------------------
(* The runner's temporary resources and test runs *)

\* main has ended: it returned, exit() was called, or an exception left it
Ended == {"returned", "exited", "raised"}

\* C16: when the runner's process ends, by any path through main, none of the
\* temporary directories and files it created (the unzip root, the
\* virtualenv directory, the generated Mobly config) is left on the host.
C16_TempResourcesRemoved == main_pc \in Ended => disk = {}

============================================================================
